---- MODULE Spec2Model ----
(***************************************************************************)
(* Task-management backend: the task routes (server/routes/tasks.js), the  *)
(* Notification model and the notification routes.  The document store is  *)
(* two collections, tasks and notifications, keyed by ids the store hands  *)
(* out once and never reuses.                                              *)
(*                                                                         *)
(* Spec, TaskSpec and AssignSpec serve each request alone, a handler being *)
(* one step: Spec runs all seven handlers on one task, TaskSpec the task   *)
(* handlers and the notification listing on two tasks, AssignSpec the same *)
(* on one task with lists of three assignees.  ConcSpec runs the four      *)
(* writing task handlers with every awaited store call as a step of its    *)
(* own, so that requests interleave at the awaits as they do on the event  *)
(* loop.                                                                   *)
(***************************************************************************)
EXTENDS Integers, Sequences, FiniteSets

\* ------------------------------------------------------------------ bounds
MaxTasks == 1
MaxNotifs == 2
MaxLen == 2
TaskMaxTasks == 2
TaskMaxNotifs == 2
TaskMaxLen == 2
AssignMaxTasks == 1
AssignMaxNotifs == 3
AssignMaxLen == 3
ConcMaxTasks == 1
ConcMaxNotifs == 2
ConcMaxLen == 1
MaxInFlight == 2

\* ------------------------------------------------------------------ values
Users == {1, 2, 3}

\* JavaScript undefined (a key the request body does not carry) and the
\* stored null.
Absent == "absent"
Null == "null"
\* An assignedTo key the request body does not carry (0 is no user id).
NoList == <<0>>

Titles == {"t1"}
Statuses == {"pending", "done"}
DefaultStatus == "pending"

Range(s) == {s[i] : i \in DOMAIN s}

\* Request bodies' assignedTo arrays of at most n user ids.  Only membership
\* and iteration are ever applied to the array, so one ordering of every
\* multiset of ids is enumerated; repeated ids are kept.
AssignLists(n) ==
  {s \in UNION {[1..k -> Users] : k \in 0..n} :
     \A i \in DOMAIN s : \A j \in DOMAIN s : i < j => s[i] <= s[j]}

VARIABLES tasks, notifs, nextTask, nextNotif, last, reqs

vars == <<tasks, notifs, nextTask, nextNotif, last, reqs>>

\* ------------------------------------------------------------ store steps
\* A function without / restricted to some keys.
Without(f, ks) == [k \in DOMAIN f \ ks |-> f[k]]

\* new Task({...}) as saved: createdBy is the caller, an absent assignedTo
\* array is stored empty, an absent status takes the schema default.
NewTask(c, title, status, A) ==
  [createdBy |-> c,
   assignedTo |-> IF A = NoList THEN <<>> ELSE A,
   title |-> title,
   status |-> IF status = Absent THEN DefaultStatus ELSE status]

\* The Task schema requires a title: save() rejects a task without one.
TaskValid(title) == title # Absent

\* One notification document as the schema builds it: read defaults to false.
\* The message (a fixed template around the title, never empty) and createdAt
\* are written once and read by no handler; they are not kept.
NewNotification(tid, u) ==
  [type |-> "task_assigned", taskId |-> tid, userId |-> u, read |-> FALSE]

\* Faulty insertMany: the first element of the list is skipped.
InsertManySkipFirst(ns, first, tid, list) ==
  [k \in DOMAIN ns \cup {first + i - 1 : i \in DOMAIN list \ {1}} |->
     IF k \in DOMAIN ns THEN ns[k]
     ELSE [type |-> "task_assigned", taskId |-> tid,
           userId |-> list[k - first + 1], read |-> FALSE]]

\* Notification.insertMany(list.map(userId => {...})): one document per
\* element of the list, in order, under fresh ids first, first+1, ...
InsertMany(ns, first, tid, list) ==
  [k \in DOMAIN ns \cup {first + i - 1 : i \in DOMAIN list} |->
     IF k \in DOMAIN ns THEN ns[k]
     ELSE NewNotification(tid, list[k - first + 1])]

\* Faulty filter: the negation is lost, the ids already assigned are kept.
NewAssigneesInverted(A, P) == SelectSeq(A, LAMBDA u : u \in {P[i] : i \in DOMAIN P})

\* assignedTo.filter(userId => !task.assignedTo.includes(userId))
NewAssignees(A, P) == SelectSeq(A, LAMBDA u : u \notin Range(P))

\* Faulty check: the comparison is inverted.
IsCreatorInverted(t, c) == t.createdBy # c

\* task.createdBy.toString() !== req.user.userId
IsCreator(t, c) == t.createdBy = c

\* task.assignedTo.includes(req.user.userId)
IsAssignee(t, c) == c \in Range(t.assignedTo)

\* What $set stores for a key of the update document: a supplied value is
\* stored; an undefined one is either dropped from the update or stored as
\* null, depending on the ODM build.
SetOutcomes(old, new) == IF new = Absent THEN {old, Null} ELSE {new}

\* The documents findByIdAndUpdate(id, { $set: updates }) can leave: createdBy
\* is no key of updates, assignedTo is one only when the body carries it.
SetUpdates(doc, title, status, A) ==
  {[createdBy |-> doc.createdBy,
    assignedTo |-> IF A = NoList THEN doc.assignedTo ELSE A,
    title |-> nt,
    status |-> ns] : nt \in SetOutcomes(doc.title, title),
                     ns \in SetOutcomes(doc.status, status)}

\* findByIdAndUpdate(id, { $set: { status } })
SetStatus(doc, status) ==
  {[doc EXCEPT !.status = ns] : ns \in SetOutcomes(doc.status, status)}

\* task.save() of a new document under the id the store gave it.
SaveTask(ts, id, doc) ==
  [k \in DOMAIN ts \cup {id} |-> IF k = id THEN doc ELSE ts[k]]

\* Faulty check: any caller passes.
IsRecipientAnyone(n, c) == TRUE

\* notification.userId.toString() !== req.user.userId
IsRecipient(n, c) == n.userId = c

\* Faulty assignment: the flag is toggled.
SetReadToggle(n) == [n EXCEPT !.read = ~n.read]

\* notification.read = true
SetRead(n) == [n EXCEPT !.read = TRUE]

\* Faulty deleteMany: the filter matches every document.
DeleteManyAll(ns, tid) == [k \in {} |-> ns[k]]

\* Notification.deleteMany({ taskId })
DeleteMany(ns, tid) == Without(ns, {k \in DOMAIN ns : ns[k].taskId = tid})

\* Faulty updateMany: the filter leaves out userId.
UpdateManyReadAll(ns, c) ==
  [k \in DOMAIN ns |-> [ns[k] EXCEPT !.read = TRUE]]

\* Notification.updateMany({ userId: c, read: false }, { $set: { read: true } })
UpdateManyRead(ns, c) ==
  [k \in DOMAIN ns |->
     IF ns[k].userId = c /\ ns[k].read = FALSE
     THEN [ns[k] EXCEPT !.read = TRUE] ELSE ns[k]]

\* Notification.find({ userId: c }): the ids of the caller's notifications.
FindForUser(ns, c) == {k \in DOMAIN ns : ns[k].userId = c}

\* ------------------------------------------------------------- responses
\* The last response sent: the handler, the status code and, where a claim
\* reads it, the JSON body.
NoBody == "none"
Response(op, code, body) == [op |-> op, code |-> code, body |-> body]

\* A request in flight: where its handler stands and the handler's locals
\* (req.user.userId, req.params.id, the body's fields, newAssignees).
Request(pc, c, id, title, status, A, new) ==
  [pc |-> pc, caller |-> c, id |-> id, title |-> title, status |-> status,
   arg |-> A, new |-> new]

Idle == Request("idle", 0, 0, Absent, Absent, NoList, <<>>)

Init ==
  /\ tasks = <<>>
  /\ notifs = <<>>
  /\ nextTask = 1
  /\ nextNotif = 1
  /\ last = Response("none", 0, NoBody)
  /\ reqs = [s \in 1..MaxInFlight |-> Idle]

\* What a request body can carry for title and status.
TitleInputs == Titles \cup {Absent}
StatusInputs == Statuses \cup {Absent}

\* ------------------------------------------------- handlers, one step each
\* POST /tasks
Create(c, title, status, A) ==
  /\ UNCHANGED reqs
  /\ IF ~TaskValid(title)
     THEN /\ last' = Response("create", 500, NoBody)
          /\ UNCHANGED <<tasks, notifs, nextTask, nextNotif>>
     ELSE /\ tasks' = SaveTask(tasks, nextTask, NewTask(c, title, status, A))
          /\ nextTask' = nextTask + 1
          /\ IF A = NoList
             THEN /\ last' = Response("create", 500, NoBody)
                  /\ UNCHANGED <<notifs, nextNotif>>
             ELSE /\ notifs' = InsertMany(notifs, nextNotif, nextTask, A)
                  /\ nextNotif' = nextNotif + Len(A)
                  /\ last' = Response("create", 201, NoBody)

\* PUT /tasks/:id, past the two checks: the notifications for the new
\* assignees, then the $set.
UpdateApply(c, t, title, status, A) ==
  LET new == IF A = NoList THEN <<>> ELSE NewAssignees(A, tasks[t].assignedTo)
  IN /\ notifs' = InsertMany(notifs, nextNotif, t, new)
     /\ nextNotif' = nextNotif + Len(new)
     /\ \E doc \in SetUpdates(tasks[t], title, status, A) :
          tasks' = [tasks EXCEPT ![t] = doc]
     /\ last' = Response("update", 200, NoBody)

\* PUT /tasks/:id
Update(c, t, titles, statuses, lists) ==
  /\ UNCHANGED <<nextTask, reqs>>
  /\ IF t \notin DOMAIN tasks
     THEN /\ last' = Response("update", 404, NoBody)
          /\ UNCHANGED <<tasks, notifs, nextNotif>>
     ELSE IF ~IsCreator(tasks[t], c)
     THEN /\ last' = Response("update", 403, NoBody)
          /\ UNCHANGED <<tasks, notifs, nextNotif>>
     ELSE \E ti \in titles, st \in statuses, A \in lists :
            UpdateApply(c, t, ti, st, A)

\* PATCH /tasks/:id/status
UpdateStatus(c, t, statuses) ==
  /\ UNCHANGED <<notifs, nextTask, nextNotif, reqs>>
  /\ IF t \notin DOMAIN tasks
     THEN /\ last' = Response("status", 404, NoBody)
          /\ UNCHANGED tasks
     ELSE IF ~IsAssignee(tasks[t], c)
     THEN /\ last' = Response("status", 403, NoBody)
          /\ UNCHANGED tasks
     ELSE /\ \E st \in statuses : \E doc \in SetStatus(tasks[t], st) :
               tasks' = [tasks EXCEPT ![t] = doc]
          /\ last' = Response("status", 200, NoBody)

\* DELETE /tasks/:id
Delete(c, t) ==
  /\ UNCHANGED <<nextTask, nextNotif, reqs>>
  /\ IF t \notin DOMAIN tasks
     THEN /\ last' = Response("delete", 404, NoBody)
          /\ UNCHANGED <<tasks, notifs>>
     ELSE IF ~IsCreator(tasks[t], c)
     THEN /\ last' = Response("delete", 403, NoBody)
          /\ UNCHANGED <<tasks, notifs>>
     ELSE /\ tasks' = Without(tasks, {t})
          /\ notifs' = DeleteMany(notifs, t)
          /\ last' = Response("delete", 200, NoBody)

\* GET /notifications
ListNotifications(c) ==
  /\ last' = Response("list", 200, FindForUser(notifs, c))
  /\ UNCHANGED <<tasks, notifs, nextTask, nextNotif, reqs>>

\* PATCH /notifications/:id/read
MarkRead(c, n) ==
  /\ UNCHANGED <<tasks, nextTask, nextNotif, reqs>>
  /\ IF n \notin DOMAIN notifs
     THEN /\ last' = Response("read", 404, NoBody)
          /\ UNCHANGED notifs
     ELSE IF ~IsRecipient(notifs[n], c)
     THEN /\ last' = Response("read", 403, NoBody)
          /\ UNCHANGED notifs
     ELSE /\ notifs' = [notifs EXCEPT ![n] = SetRead(@)]
          /\ last' = Response("read", 200, notifs'[n])

\* POST /notifications/mark-all-read
MarkAllRead(c) ==
  /\ notifs' = UpdateManyRead(notifs, c)
  /\ last' = Response("readall", 200, NoBody)
  /\ UNCHANGED <<tasks, nextTask, nextNotif, reqs>>

\* --------------------------------------------------------------- inputs
\* The ids the store has left to hand out.
Within(maxT, maxN) == nextTask' <= maxT + 1 /\ nextNotif' <= maxN + 1

DoCreate(maxT, maxN, titles, statuses, lists) ==
  \E c \in Users, ti \in titles, st \in statuses, A \in lists :
    Create(c, ti, st, A) /\ Within(maxT, maxN)
DoUpdate(maxT, maxN, titles, statuses, lists) ==
  \E c \in Users, t \in 1..maxT :
    Update(c, t, titles, statuses, lists) /\ Within(maxT, maxN)
DoUpdateStatus(maxT, statuses) ==
  \E c \in Users, t \in 1..maxT : UpdateStatus(c, t, statuses)
DoDelete(maxT) == \E c \in Users, t \in 1..maxT : Delete(c, t)
DoListNotifications == \E c \in Users : ListNotifications(c)
DoMarkRead(maxN) == \E c \in Users, n \in 1..maxN : MarkRead(c, n)
DoMarkAllRead == \E c \in Users : MarkAllRead(c)

\* Every handler, each request served alone.
AssignInputs == AssignLists(MaxLen) \cup {NoList}

Next ==
  \/ DoCreate(MaxTasks, MaxNotifs, TitleInputs, StatusInputs, AssignInputs)
  \/ DoUpdate(MaxTasks, MaxNotifs, TitleInputs, StatusInputs, AssignInputs)
  \/ DoUpdateStatus(MaxTasks, StatusInputs)
  \/ DoDelete(MaxTasks)
  \/ DoListNotifications
  \/ DoMarkRead(MaxNotifs)
  \/ DoMarkAllRead

Spec == Init /\ [][Next]_vars

\* The task handlers alone, on more tasks and longer lists, every request
\* carrying the same title and status.
TaskAssignInputs == AssignLists(TaskMaxLen) \cup {NoList}

TaskNext ==
  \/ DoCreate(TaskMaxTasks, TaskMaxNotifs, Titles, {"done"}, TaskAssignInputs)
  \/ DoUpdate(TaskMaxTasks, TaskMaxNotifs, Titles, {"done"}, TaskAssignInputs)
  \/ DoUpdateStatus(TaskMaxTasks, {"done"})
  \/ DoDelete(TaskMaxTasks)
  \/ DoListNotifications

TaskSpec == Init /\ [][TaskNext]_vars

\* The same on one task, with lists long enough for three assignees.
AssignAssignInputs == AssignLists(AssignMaxLen) \cup {NoList}

AssignNext ==
  \/ DoCreate(AssignMaxTasks, AssignMaxNotifs, Titles, {"done"}, AssignAssignInputs)
  \/ DoUpdate(AssignMaxTasks, AssignMaxNotifs, Titles, {"done"}, AssignAssignInputs)
  \/ DoUpdateStatus(AssignMaxTasks, {"done"})
  \/ DoDelete(AssignMaxTasks)
  \/ DoListNotifications

AssignSpec == Init /\ [][AssignNext]_vars

\* ------------------------------------- handlers, one step per awaited call
Slots == 1..MaxInFlight
Free(s) == reqs[s].pc = "idle"
At(s, pc) == reqs[s].pc = pc
Goto(s, r) == reqs' = [reqs EXCEPT ![s] = r]
Done(s) == Goto(s, Idle)
Quiescent == \A s \in Slots : Free(s)

\* POST /tasks up to await task.save()
CreateSave(s, c, title, status, A) ==
  /\ Free(s)
  /\ UNCHANGED <<notifs, nextNotif, last>>
  /\ IF ~TaskValid(title)
     THEN UNCHANGED <<tasks, nextTask, reqs>>
     ELSE /\ tasks' = SaveTask(tasks, nextTask, NewTask(c, title, status, A))
          /\ nextTask' = nextTask + 1
          /\ Goto(s, Request("create_notify", c, nextTask, title, status, A, <<>>))

\* ... up to await Notification.insertMany(notifications); assignedTo.map
\* throws on an absent assignedTo and the request ends in the catch block.
CreateNotify(s) ==
  /\ At(s, "create_notify")
  /\ UNCHANGED <<tasks, nextTask, last>>
  /\ IF reqs[s].arg = NoList
     THEN /\ Done(s)
          /\ UNCHANGED <<notifs, nextNotif>>
     ELSE /\ notifs' = InsertMany(notifs, nextNotif, reqs[s].id, reqs[s].arg)
          /\ nextNotif' = nextNotif + Len(reqs[s].arg)
          /\ Goto(s, [reqs[s] EXCEPT !.pc = "create_respond"])

\* ... Task.findById(task._id) and the 201
CreateRespond(s) ==
  /\ At(s, "create_respond")
  /\ Done(s)
  /\ UNCHANGED <<tasks, notifs, nextTask, nextNotif, last>>

\* PUT /tasks/:id up to the first await after Task.findById: the two checks
\* and newAssignees, computed from the task as read.
UpdateFind(s, c, t, title, status, A) ==
  /\ Free(s)
  /\ UNCHANGED <<tasks, notifs, nextTask, nextNotif, last>>
  /\ IF t \notin DOMAIN tasks \/ ~IsCreator(tasks[t], c)
     THEN UNCHANGED reqs
     ELSE LET new == IF A = NoList THEN <<>>
                     ELSE NewAssignees(A, tasks[t].assignedTo)
          IN Goto(s, Request(IF Len(new) > 0 THEN "update_notify"
                             ELSE "update_write", c, t, title, status, A, new))

\* ... await Notification.insertMany(notifications)
UpdateNotify(s) ==
  /\ At(s, "update_notify")
  /\ notifs' = InsertMany(notifs, nextNotif, reqs[s].id, reqs[s].new)
  /\ nextNotif' = nextNotif + Len(reqs[s].new)
  /\ Goto(s, [reqs[s] EXCEPT !.pc = "update_write"])
  /\ UNCHANGED <<tasks, nextTask, last>>

\* ... await Task.findByIdAndUpdate(...): no document, nothing written.
UpdateWrite(s) ==
  /\ At(s, "update_write")
  /\ Done(s)
  /\ UNCHANGED <<notifs, nextTask, nextNotif, last>>
  /\ IF reqs[s].id \in DOMAIN tasks
     THEN \E doc \in SetUpdates(tasks[reqs[s].id], reqs[s].title,
                                reqs[s].status, reqs[s].arg) :
            tasks' = [tasks EXCEPT ![reqs[s].id] = doc]
     ELSE UNCHANGED tasks

\* PATCH /tasks/:id/status up to the await after Task.findById
StatusFind(s, c, t, status) ==
  /\ Free(s)
  /\ UNCHANGED <<tasks, notifs, nextTask, nextNotif, last>>
  /\ IF t \notin DOMAIN tasks \/ ~IsAssignee(tasks[t], c)
     THEN UNCHANGED reqs
     ELSE Goto(s, Request("status_write", c, t, Absent, status, NoList, <<>>))

\* ... await Task.findByIdAndUpdate(id, { $set: { status } })
StatusWrite(s) ==
  /\ At(s, "status_write")
  /\ Done(s)
  /\ UNCHANGED <<notifs, nextTask, nextNotif, last>>
  /\ IF reqs[s].id \in DOMAIN tasks
     THEN \E doc \in SetStatus(tasks[reqs[s].id], reqs[s].status) :
            tasks' = [tasks EXCEPT ![reqs[s].id] = doc]
     ELSE UNCHANGED tasks

\* DELETE /tasks/:id up to the await after Task.findById
DeleteFind(s, c, t) ==
  /\ Free(s)
  /\ UNCHANGED <<tasks, notifs, nextTask, nextNotif, last>>
  /\ IF t \notin DOMAIN tasks \/ ~IsCreator(tasks[t], c)
     THEN UNCHANGED reqs
     ELSE Goto(s, Request("delete_task", c, t, Absent, Absent, NoList, <<>>))

\* ... await task.deleteOne()
DeleteTask(s) ==
  /\ At(s, "delete_task")
  /\ tasks' = Without(tasks, {reqs[s].id})
  /\ Goto(s, [reqs[s] EXCEPT !.pc = "delete_notifs"])
  /\ UNCHANGED <<notifs, nextTask, nextNotif, last>>

\* ... await Notification.deleteMany({ taskId: task._id })
DeleteNotifs(s) ==
  /\ At(s, "delete_notifs")
  /\ notifs' = DeleteMany(notifs, reqs[s].id)
  /\ Done(s)
  /\ UNCHANGED <<tasks, nextTask, nextNotif, last>>

ConcAssignInputs == AssignLists(ConcMaxLen) \cup {NoList}
ConcTaskIds == 1..ConcMaxTasks

DoCreateSave ==
  \E s \in Slots, c \in Users, ti \in Titles, st \in Statuses, A \in ConcAssignInputs :
    CreateSave(s, c, ti, st, A) /\ Within(ConcMaxTasks, ConcMaxNotifs)
DoCreateNotify == \E s \in Slots : CreateNotify(s) /\ Within(ConcMaxTasks, ConcMaxNotifs)
DoCreateRespond == \E s \in Slots : CreateRespond(s)
DoUpdateFind ==
  \E s \in Slots, c \in Users, t \in ConcTaskIds, ti \in Titles, st \in Statuses,
     A \in ConcAssignInputs : UpdateFind(s, c, t, ti, st, A)
DoUpdateNotify == \E s \in Slots : UpdateNotify(s) /\ Within(ConcMaxTasks, ConcMaxNotifs)
DoUpdateWrite == \E s \in Slots : UpdateWrite(s)
DoStatusFind ==
  \E s \in Slots, c \in Users, t \in ConcTaskIds, st \in Statuses : StatusFind(s, c, t, st)
DoStatusWrite == \E s \in Slots : StatusWrite(s)
DoDeleteFind == \E s \in Slots, c \in Users, t \in ConcTaskIds : DeleteFind(s, c, t)
DoDeleteTask == \E s \in Slots : DeleteTask(s)
DoDeleteNotifs == \E s \in Slots : DeleteNotifs(s)

ConcNext ==
  \/ DoCreateSave
  \/ DoCreateNotify
  \/ DoCreateRespond
  \/ DoUpdateFind
  \/ DoUpdateNotify
  \/ DoUpdateWrite
  \/ DoStatusFind
  \/ DoStatusWrite
  \/ DoDeleteFind
  \/ DoDeleteTask
  \/ DoDeleteNotifs

ConcSpec == Init /\ [][ConcNext]_vars

\* ------------------------------------------------------------- properties
Distinct(list) == \A i \in DOMAIN list : \A j \in DOMAIN list : list[i] = list[j] => i = j
About(ns, t) == {n \in DOMAIN ns : ns[n].taskId = t}
AboutFor(ns, t, u) == {n \in DOMAIN ns : ns[n].taskId = t /\ ns[n].userId = u}
Inserted == DOMAIN notifs' \ DOMAIN notifs

C2_StrangerForbidden ==
  [][\A c \in Users : \A t \in DOMAIN tasks :
       (tasks[t].createdBy # c /\ c \notin Range(tasks[t].assignedTo)) =>
         ((\/ Update(c, t, TitleInputs, StatusInputs, AssignInputs)
           \/ UpdateStatus(c, t, StatusInputs)
           \/ Delete(c, t))
          => (last'.code = 403 /\ tasks' = tasks /\ notifs' = notifs))]_vars

\* A DELETE was refused on a task nobody is assigned to: the caller was not
\* its creator, and no one is an assignee.
C2_Witness ==
  /\ last.op = "delete" /\ last.code = 403
  /\ 1 \in DOMAIN tasks /\ tasks[1].assignedTo = <<>>

\* C3: a DELETE by the creator of T leaves no notification with taskId T, so
\* no user's notification list holds one, and keeps every notification about
\* another task as it was.
C3_DeleteCascades ==
  [][\A c \in Users : \A t \in DOMAIN tasks :
       (tasks[t].createdBy = c /\ Delete(c, t)) =>
         /\ About(notifs', t) = {}
         /\ \A u \in Users : \A n \in FindForUser(notifs', u) : notifs'[n].taskId # t
         /\ \A n \in DOMAIN notifs \ About(notifs, t) :
              n \in DOMAIN notifs' /\ notifs'[n] = notifs[n]]_vars

\* Task 1 was deleted, its notification went with it, and the notification
\* about task 2 is still there.
C3_Witness ==
  /\ last.op = "delete" /\ last.code = 200
  /\ DOMAIN tasks = {2}
  /\ nextNotif = 3
  /\ Cardinality(DOMAIN notifs) = 1
  /\ \A n \in DOMAIN notifs : notifs[n].taskId = 2

\* C4: a PUT by the creator carrying assignedTo = A on a task whose stored
\* assignees are P inserts exactly one task_assigned notification for each
\* user in A \ P and none for any other user; without assignedTo it inserts
\* none.
C4_UpdateNotifiesNewAssigneesOnce ==
  [][\A c \in Users : \A t \in DOMAIN tasks : \A A \in AssignAssignInputs :
       (tasks[t].createdBy = c
        /\ \E ti \in Titles : UpdateApply(c, t, ti, "done", A)) =>
         IF A = NoList THEN Inserted = {}
         ELSE /\ \A n \in Inserted :
                   notifs'[n].taskId = t /\ notifs'[n].type = "task_assigned"
              /\ \A u \in Users :
                   Cardinality({n \in Inserted : notifs'[n].userId = u}) =
                     IF u \in Range(A) \ Range(tasks[t].assignedTo) THEN 1 ELSE 0]_vars

\* The same statement for the request bodies C4 fails on excluded: when A
\* repeats no id, the PUT inserts exactly one notification per user in A \ P.
C4_DistinctListsNotifiedOnce ==
  [][\A c \in Users : \A t \in DOMAIN tasks : \A A \in AssignAssignInputs :
       (tasks[t].createdBy = c /\ A # NoList /\ Distinct(A)
        /\ \E ti \in Titles : UpdateApply(c, t, ti, "done", A)) =>
         \A u \in Users :
           Cardinality({n \in Inserted : notifs'[n].userId = u}) =
             IF u \in Range(A) \ Range(tasks[t].assignedTo) THEN 1 ELSE 0]_vars

\* C5: once no request is in flight, every notification's taskId is the id
\* of a task that exists.
C5_NoOrphanWhenQuiescent ==
  Quiescent => \A n \in DOMAIN notifs : notifs[n].taskId \in DOMAIN tasks

\* C6: mark-all-read by c sets read on every notification of c, leaves every
\* other notification as it was, and neither creates nor deletes one.
C6_MarkAllReadOwnOnly ==
  [][\A c \in Users :
       MarkAllRead(c) =>
         /\ DOMAIN notifs' = DOMAIN notifs
         /\ \A n \in DOMAIN notifs :
              IF notifs[n].userId = c
              THEN notifs'[n] = [notifs[n] EXCEPT !.read = TRUE]
              ELSE notifs'[n] = notifs[n]]_vars

\* A mark-all-read was answered; one notification is read and another
\* user's notification is still unread.
C6_Witness ==
  /\ last.op = "readall"
  /\ \E n \in DOMAIN notifs : \E m \in DOMAIN notifs :
       /\ notifs[n].read /\ ~notifs[m].read
       /\ notifs[n].userId # notifs[m].userId

\* C7: a notification is created unread, and once read it stays read for as
\* long as it exists, whatever request is served.
C7_ReadNeverReverts ==
  [][/\ \A n \in DOMAIN notifs \cap DOMAIN notifs' : notifs[n].read => notifs'[n].read
     /\ \A n \in Inserted : ~notifs'[n].read]_vars

\* A task update was served while a notification was already read.
C7_Witness ==
  /\ last.op \in {"update", "status"} /\ last.code = 200
  /\ \E n \in DOMAIN notifs : notifs[n].read

\* C8: mark-read of n by its recipient answers 200 with read = true and
\* leaves the store as one such call leaves it (a second call changes
\* nothing); on an absent id it answers 404 and for another user 403, the
\* notifications unchanged in both cases.
C8_MarkReadIdempotent ==
  [][\A c \in Users : \A n \in 1..MaxNotifs :
       MarkRead(c, n) =>
         IF n \notin DOMAIN notifs THEN last'.code = 404 /\ notifs' = notifs
         ELSE IF notifs[n].userId # c THEN last'.code = 403 /\ notifs' = notifs
         ELSE /\ last'.code = 200
              /\ last'.body.read = TRUE
              /\ notifs' = [notifs EXCEPT ![n].read = TRUE]
              /\ notifs[n].read => notifs' = notifs]_vars

\* A mark-read was answered 200 with the notification read.
C8_Witness ==
  /\ last.op = "read" /\ last.code = 200
  /\ last.body.read = TRUE
  /\ \E n \in DOMAIN notifs : notifs[n].read /\ notifs[n] = last.body

\* C9: a stored task changes only by a PUT of its creator or by a PATCH
\* /status of a user who is in its assignedTo when the write is applied
\* (only the status changing, no notification inserted); it is deleted only
\* by its creator; createdBy never changes.
C9_OnlyCreatorOrAssigneeWrites ==
  [][\A t \in DOMAIN tasks :
       /\ (t \in DOMAIN tasks' /\ tasks'[t] # tasks[t]) =>
            \E s \in Slots :
              /\ reqs[s].id = t
              /\ \/ /\ UpdateWrite(s)
                    /\ reqs[s].caller = tasks[t].createdBy
                 \/ /\ StatusWrite(s)
                    /\ reqs[s].caller \in Range(tasks[t].assignedTo)
                    /\ tasks'[t] = [tasks[t] EXCEPT !.status = tasks'[t].status]
                    /\ Inserted = {}
       /\ t \notin DOMAIN tasks' =>
            \E s \in Slots :
              DeleteTask(s) /\ reqs[s].id = t /\ reqs[s].caller = tasks[t].createdBy
       /\ t \in DOMAIN tasks' => tasks'[t].createdBy = tasks[t].createdBy]_vars

\* C10: while no Create is between saving its task and inserting its
\* notifications, every assignee of every existing task has a task_assigned
\* notification about that task.
CreateWindowOpen == \E s \in Slots : At(s, "create_notify")

C10_AssigneesNotified ==
  ~CreateWindowOpen =>
    \A t \in DOMAIN tasks : \A u \in Range(tasks[t].assignedTo) :
      \E n \in AboutFor(notifs, t, u) : notifs[n].type = "task_assigned"

\* An Update has inserted the notification for a new assignee and has not
\* yet written the new assignedTo.
C10_Witness ==
  /\ ~CreateWindowOpen
  /\ \E s \in Slots :
       /\ At(s, "update_write")
       /\ Len(reqs[s].new) > 0
       /\ reqs[s].id \in DOMAIN tasks
       /\ reqs[s].new[1] \notin Range(tasks[reqs[s].id].assignedTo)
       /\ AboutFor(notifs, reqs[s].id, reqs[s].new[1]) # {}
====
